---- MODULE Spec2Model ----
(***************************************************************************)
(* Model of crates/rune/src/shared/scopes.rs: the stack of scopes used by  *)
(* the constant evaluator (Scopes<T>, Scope<T>, ScopeGuard, ScopeError).   *)
(* One action per method of Scopes<T>; the values the methods return and   *)
(* the history the properties speak about are recorded next to the state.  *)
(***************************************************************************)
EXTENDS Integers, Sequences, FiniteSets

\* ---------------------------------------------------------------- bounds
\* Number of push() calls explored.
MaxPush == 3
\* Number of scopes on the stack, the root included.
MaxDepth == 3
\* Largest content a runtime value holds.
MaxValue == 3
\* Number of blanks put in front of a source text.
MaxShift == 2

\* The identifiers the callers use, and the values (T) they bind them to:
\* two values for x (a binding can differ from the one it shadows or
\* replaces), one for y (a second name next to x).
Names == {"x", "y"}
ValuesOf(name) == IF name = "x" THEN {1, 2} ELSE {1}

\* ------------------------------------------------------- returned values
\* Option<&T>
Some(v) == [tag |-> "Some", val |-> v]
None == [tag |-> "None"]
\* Result<_, _>
Ok(v) == [tag |-> "Ok", val |-> v]
OkUnit == [tag |-> "Ok"]
\* Internal::new(spanned, msg)
Internal(msg) == [tag |-> "Internal", msg |-> msg]
\* ScopeErrorKind::MissingLocal { name }
MissingLocal(name) == [kind |-> "MissingLocal", name |-> name]
\* ScopeError::new(spanned, kind)
ScopeError(kind) == [tag |-> "ScopeError", kind |-> kind]
\* the value of a call that returns no guard
NoGuard == [id |-> 0, length |-> 0]
\* ScopeGuard { length }; id names the push that issued it
ScopeGuard(id, length) == [id |-> id, length |-> length]

\* --------------------------------------------------------------- HashMap
\* HashMap::default()
MapDefault == [n \in {} |-> 0]
\* HashMap::get
MapGet(m, k) == IF k \in DOMAIN m THEN Some(m[k]) ELSE None
\* an insert that keeps the value of a key that is already present
MapInsert_KeepOld(m, k, v) ==
    [n \in (DOMAIN m) \cup {k} |-> IF n \in DOMAIN m THEN m[n] ELSE v]
\* HashMap::insert
MapInsert(m, k, v) == [n \in (DOMAIN m) \cup {k} |-> IF n = k THEN v ELSE m[n]]
\* HashMap::clear
MapClear(m) == [n \in {} |-> 0]

\* ----------------------------------------------------------------- Scope
ScopeDefault == [locals |-> MapDefault]
\* a default that starts without the root scope
ScopesDefault_NoRoot == << >>
ScopesDefault == << ScopeDefault >>

\* a reference to the first element instead of the last
VecLastMut_First(s) == IF Len(s) = 0 THEN 0 ELSE 1
\* Vec::last_mut: the index of the last element, 0 when there is none
VecLastMut(s) == Len(s)
\* a reference to the first scope instead of the last
last_mut_First(s) == IF Len(s) = 0 THEN 0 ELSE 1
\* Scopes::last_mut
last_mut(s) == VecLastMut(s)

\* a lookup in the innermost scope only
get_from_InnermostOnly(s, i, name) ==
    IF i = 0 THEN None ELSE MapGet(s[i].locals, name)
\* a scan from the outermost scope inwards (iter() without rev())
get_from_Forward(s, i, name) ==
    LET found == {j \in 1..i : name \in DOMAIN s[j].locals}
    IN IF found = {} THEN None
       ELSE Some(s[CHOOSE j \in found : \A h \in found : j <= h].locals[name])
\* Scopes::get: for scope in self.scopes.iter().rev()
RECURSIVE get_from(_, _, _)
get_from(s, i, name) ==
    IF i = 0 THEN None
    ELSE IF MapGet(s[i].locals, name) # None
         THEN MapGet(s[i].locals, name)
         ELSE get_from(s, i - 1, name)
get(s, name) == get_from(s, Len(s), name)

\* Scopes::get_name: the same scan, Err(MissingLocal) when it finds nothing
\* a scan that starts at the root scope
get_name_from_Forward(s, i, name) ==
    LET found == {j \in 1..i : name \in DOMAIN s[j].locals}
    IN IF found = {} THEN ScopeError(MissingLocal(name))
       ELSE Ok(s[CHOOSE j \in found : \A h \in found : j <= h].locals[name])
RECURSIVE get_name_from(_, _, _)
get_name_from(s, i, name) ==
    IF i = 0 THEN ScopeError(MissingLocal(name))
    ELSE IF MapGet(s[i].locals, name) # None
         THEN Ok(MapGet(s[i].locals, name).val)
         ELSE get_name_from(s, i - 1, name)
get_name(s, name) == get_name_from(s, Len(s), name)

\* Scopes::get_name_mut: the index of the scope whose binding is borrowed
\* mutably, 0 when the scan finds nothing
\* a scan that starts at the root scope
get_name_mut_from_Forward(s, i, name) ==
    LET found == {j \in 1..i : name \in DOMAIN s[j].locals}
    IN IF found = {} THEN 0
       ELSE CHOOSE j \in found : \A h \in found : j <= h
RECURSIVE get_name_mut_from(_, _, _)
get_name_mut_from(s, i, name) ==
    IF i = 0 THEN 0
    ELSE IF MapGet(s[i].locals, name) # None
         THEN i
         ELSE get_name_mut_from(s, i - 1, name)
get_name_mut(s, name) == get_name_mut_from(s, Len(s), name)

\* ----------------------------------------------------------------- state
VARIABLES
    scopes,     \* Scopes::scopes
    guards,     \* the ScopeGuards returned by push and not yet moved into
                \* pop, in the order of their pushes
    nextId,     \* the number of the next push
    owner,      \* owner[i]: the number of the push that appended scopes[i]
                \* (0: the root)
    shadowed,   \* shadowed[i][n]: what get(n) returned when n was first
                \* declared in scopes[i] since it was pushed or cleared
    lifo,       \* every pop so far used the guard of the latest open push
    last,       \* the latest call: its arguments, its result, the scope
                \* it removed and the bindings it removed or replaced (for
                \* a lookup: the bindings the pop right before it removed)
    saved,      \* the stack as the latest push found it, while only decl
                \* and clear_current calls have followed that push, and
                \* right after the pop that used its guard
    vm,         \* a call of std::cmp::max or std::cmp::min: its arguments
                \* and its result
    cc          \* a call of rune::compile: the source text, how far it has
                \* been read, the tokens read and the result

vars == << scopes, guards, nextId, owner, shadowed, lifo, last, saved, vm, cc >>

Unset == [tag |-> "Unset"]
NoShadow == [n \in Names |-> Unset]

Call(op, name, val, guard, ret, removed, gone) ==
    [op |-> op, name |-> name, val |-> val, guard |-> guard, ret |-> ret,
     removed |-> removed, gone |-> gone]

\* no push is being followed
NoSaved == [state |-> "none"]
\* no call of the std::cmp functions
VmIdle == [op |-> "idle"]
\* no call of rune::compile
CcIdle == [state |-> "idle"]

\* Scopes::default()
Init ==
    /\ saved = NoSaved
    /\ vm = VmIdle
    /\ cc = CcIdle
    /\ scopes = ScopesDefault
    /\ guards = << >>
    /\ nextId = 1
    /\ owner = << 0 >>
    /\ shadowed = << NoShadow >>
    /\ lifo = TRUE
    /\ last = Call("default", "", 0, NoGuard, OkUnit, -1, MapDefault)

\* the guard of the latest push that no pop has consumed
LatestOpen == guards[Len(guards)]

\* a guard that stays usable after a pop took it
Without_Keep(s, k) == s
\* s without its k-th element
Without(s, k) == SubSeq(s, 1, k - 1) \o SubSeq(s, k + 1, Len(s))

\* ----------------------------------------------------------------- push
\* the length read after the scope was appended
push_length_After(s) == Len(s) + 1
\* let length = self.scopes.len();
push_length(s) == Len(s)

Push ==
    /\ nextId <= MaxPush
    /\ Len(scopes) < MaxDepth
    /\ nextId' = nextId + 1
    /\ LET length == push_length(scopes)
           guard == ScopeGuard(nextId, length)
       IN /\ scopes' = Append(scopes, ScopeDefault)
          /\ guards' = Append(guards, guard)
          /\ owner' = Append(owner, guard.id)
          /\ shadowed' = Append(shadowed, NoShadow)
          /\ last' = Call("push", "", 0, guard, OkUnit, -1, MapDefault)
          /\ saved' = [state |-> "open", id |-> guard.id, stack |-> scopes]
    /\ UNCHANGED << lifo, vm, cc >>

\* ------------------------------------------------------------------ pop
\* a pop that leaves the vector as it is
VecPop_Keep(s) == s
\* Vec::pop: the vector without its last element
VecPop(s) == SubSeq(s, 1, Len(s) - 1)

\* a check against the length before the removal
pop_check_OffByOne(s, guard) ==
    IF Len(s) + 1 # guard.length
    THEN Internal("scope length mismatch")
    ELSE OkUnit
\* if self.scopes.len() != guard.length { Err(..) } else { Ok(()) }
pop_check(s, guard) ==
    IF Len(s) # guard.length
    THEN Internal("scope length mismatch")
    ELSE OkUnit

Pop(k) ==
    /\ k <= Len(guards)
    /\ guards' = Without(guards, k)
    /\ lifo' = (lifo /\ guards[k] = LatestOpen)
    /\ saved' = IF saved.state = "open" /\ saved.id = guards[k].id
                THEN [saved EXCEPT !.state = "closed"]
                ELSE NoSaved
    /\ UNCHANGED << nextId, vm, cc >>
    /\ IF Len(scopes) = 0
       THEN /\ last' = Call("pop", "", 0, guards[k],
                            Internal("expected at least one scope to pop"),
                            -1, MapDefault)
            /\ UNCHANGED << scopes, owner, shadowed >>
       ELSE /\ scopes' = VecPop(scopes)
            /\ owner' = VecPop(owner)
            /\ shadowed' = VecPop(shadowed)
            /\ last' = Call("pop", "", 0, guards[k],
                            pop_check(VecPop(scopes), guards[k]),
                            owner[Len(owner)], scopes[Len(scopes)].locals)

\* the push being followed, if the calls since were decl and clear_current
StillOpen == IF saved.state = "open" THEN saved ELSE NoSaved

\* ----------------------------------------------------------------- decl
Decl(name, value) ==
    /\ UNCHANGED << guards, nextId, owner, lifo, vm, cc >>
    /\ saved' = StillOpen
    /\ IF last_mut(scopes) = 0
       THEN /\ last' = Call("decl", name, value, NoGuard,
                            Internal("expected at least one scope"),
                            -1, MapDefault)
            /\ UNCHANGED << scopes, shadowed >>
       ELSE LET i == last_mut(scopes)
            IN /\ scopes' = [scopes EXCEPT
                                ![i].locals = MapInsert(@, name, value)]
               /\ shadowed' = [shadowed EXCEPT ![i][name] =
                                  IF name \in DOMAIN scopes[i].locals
                                  THEN @ ELSE get(scopes, name)]
               /\ last' = Call("decl", name, value, NoGuard, OkUnit, -1,
                               IF name \in DOMAIN scopes[i].locals
                               THEN [n \in {name} |-> scopes[i].locals[n]]
                               ELSE MapDefault)

\* -------------------------------------------------------- clear_current
ClearCurrent ==
    /\ UNCHANGED << guards, nextId, owner, lifo, vm, cc >>
    /\ saved' = StillOpen
    /\ IF VecLastMut(scopes) = 0
       THEN /\ last' = Call("clear_current", "", 0, NoGuard,
                            Internal("expected at least one scope"),
                            -1, MapDefault)
            /\ UNCHANGED << scopes, shadowed >>
       ELSE LET i == VecLastMut(scopes)
            IN /\ scopes' = [scopes EXCEPT ![i].locals = MapClear(@)]
               /\ shadowed' = [shadowed EXCEPT ![i] = NoShadow]
               /\ last' = Call("clear_current", "", 0, NoGuard, OkUnit,
                               -1, scopes[i].locals)

\* the bindings removed by the call right before this one, when it was a pop
JustPopped == IF last.op = "pop" THEN last.gone ELSE MapDefault

\* ------------------------------------------------------------------ get
Get(name) ==
    /\ last' = Call("get", name, 0, NoGuard, get(scopes, name),
                    -1, JustPopped)
    /\ saved' = NoSaved
    /\ UNCHANGED << scopes, guards, nextId, owner, shadowed,
                    lifo, vm, cc >>

\* ------------------------------------------------------------- get_name
GetName(name) ==
    /\ last' = Call("get_name", name, 0, NoGuard, get_name(scopes, name),
                    -1, JustPopped)
    /\ saved' = NoSaved
    /\ UNCHANGED << scopes, guards, nextId, owner, shadowed,
                    lifo, vm, cc >>

\* --------------------------------------------------------- get_name_mut
\* The caller holds the returned &mut T until its next call on the stack and
\* may store a value through it: value is what the binding holds when the
\* borrow ends (the value it held before, when the caller only reads).
GetNameMut(name, value) ==
    /\ saved' = NoSaved
    /\ UNCHANGED << guards, nextId, owner, shadowed, lifo, vm, cc >>
    /\ IF get_name_mut(scopes, name) = 0
       THEN /\ last' = Call("get_name_mut", name, 0, NoGuard,
                            ScopeError(MissingLocal(name)),
                            -1, MapDefault)
            /\ UNCHANGED scopes
       ELSE LET i == get_name_mut(scopes, name)
            IN /\ scopes' = [scopes EXCEPT ![i].locals[name] = value]
               /\ last' = Call("get_name_mut", name, value, NoGuard,
                               Ok(scopes[i].locals[name]),
                               -1, MapDefault)

Next ==
    \/ Push
    \/ \E k \in 1..MaxPush : Pop(k)
    \/ \E name \in Names : \E value \in ValuesOf(name) : Decl(name, value)
    \/ ClearCurrent
    \/ \E name \in Names : Get(name)
    \/ \E name \in Names : GetName(name)
    \/ \E name \in Names : \E value \in ValuesOf(name) :
          GetNameMut(name, value)

Spec == Init /\ [][Next]_vars

\* ------------------------------------------------------------- std::cmp
\* VmResult<_>
VmOk(v) == [tag |-> "Ok", val |-> v]
VmErr(e) == [tag |-> "Err", err |-> e]

\* The runtime values the functions are called with: integers, and vectors
\* behind one of two handles, so that two values can compare as equal and
\* still be told apart. n is the content the comparison looks at.
Values ==
    {[ty |-> "Integer", n |-> n, ref |-> 0] : n \in 1..MaxValue}
    \cup {[ty |-> "Vec", n |-> n, ref |-> r] : n \in 1..MaxValue, r \in {1, 2}}

\* Value::cmp(&v1, &v2): an Ordering, or an error for values of two types
ValueCmp(v1, v2) ==
    IF v1.ty # v2.ty THEN VmErr("UnsupportedBinaryOperation")
    ELSE VmOk(IF v1.n < v2.n THEN "Less"
              ELSE IF v1.n = v2.n THEN "Equal" ELSE "Greater")

\* a max that keeps the first argument on Equal
max_FirstOnEqual(v1, v2) ==
    LET c == ValueCmp(v1, v2)
    IN IF c.tag = "Err" THEN c
       ELSE VmOk(IF c.val = "Less" THEN v2 ELSE v1)
\* fn max(v1: Value, v2: Value) -> VmResult<Value>
max(v1, v2) ==
    LET c == ValueCmp(v1, v2)
    IN IF c.tag = "Err" THEN c
       ELSE VmOk(IF c.val \in {"Less", "Equal"} THEN v2 ELSE v1)

\* a min that keeps the second argument on Equal
min_SecondOnEqual(v1, v2) ==
    LET c == ValueCmp(v1, v2)
    IN IF c.tag = "Err" THEN c
       ELSE VmOk(IF c.val = "Less" THEN v1 ELSE v2)
\* fn min(v1: Value, v2: Value) -> VmResult<Value>
min(v1, v2) ==
    LET c == ValueCmp(v1, v2)
    IN IF c.tag = "Err" THEN c
       ELSE VmOk(IF c.val \in {"Less", "Equal"} THEN v1 ELSE v2)

\* a script is about to call max or min with two values
InitCmp ==
    /\ saved = NoSaved
    /\ scopes = ScopesDefault
    /\ guards = << >>
    /\ nextId = 1
    /\ owner = << 0 >>
    /\ shadowed = << NoShadow >>
    /\ lifo = TRUE
    /\ last = Call("default", "", 0, NoGuard, OkUnit, -1, MapDefault)
    /\ vm \in {[op |-> "args", v1 |-> v1, v2 |-> v2] : v1 \in Values,
                                                       v2 \in Values}
    /\ cc = CcIdle

Max ==
    /\ vm.op = "args"
    /\ vm' = [op |-> "max", v1 |-> vm.v1, v2 |-> vm.v2,
              ret |-> max(vm.v1, vm.v2)]
    /\ UNCHANGED << scopes, guards, nextId, owner, shadowed, lifo, last,
                    saved, cc >>

Min ==
    /\ vm.op = "args"
    /\ vm' = [op |-> "min", v1 |-> vm.v1, v2 |-> vm.v2,
              ret |-> min(vm.v1, vm.v2)]
    /\ UNCHANGED << scopes, guards, nextId, owner, shadowed, lifo, last,
                    saved, cc >>

NextCmp ==
    \/ Max
    \/ Min

SpecCmp == InitCmp /\ [][NextCmp]_vars

\* -------------------------------------------------------- rune::compile
\* The source texts of tests/test_illegal_breaks.rs, one character a byte.
\* fn main() { break; }
BreakStmtSource ==
    << "\\n", " ", " ", " ", " ", " ", " ", " ", " ", " ", " ", " ",
       " ", "f", "n", " ", "m", "a", "i", "n", "(", ")", " ", "{",
       "\\n", " ", " ", " ", " ", " ", " ", " ", " ", " ", " ", " ",
       " ", " ", " ", " ", " ", "b", "r", "e", "a", "k", ";", "\\n",
       " ", " ", " ", " ", " ", " ", " ", " ", " ", " ", " ", " ",
       "}", "\\n", " ", " ", " ", " ", " ", " ", " ", " " >>
\* fn main() { break }
BreakValueSource ==
    << "\\n", " ", " ", " ", " ", " ", " ", " ", " ", " ", " ", " ",
       " ", "f", "n", " ", "m", "a", "i", "n", "(", ")", " ", "{",
       "\\n", " ", " ", " ", " ", " ", " ", " ", " ", " ", " ", " ",
       " ", " ", " ", " ", " ", "b", "r", "e", "a", "k", "\\n", " ",
       " ", " ", " ", " ", " ", " ", " ", " ", " ", " ", " ", "}",
       "\\n", " ", " ", " ", " ", " ", " ", " ", " " >>
\* a break inside a loop, which compiles
LoopBreakSource ==
    << "\\n", "f", "n", " ", "m", "a", "i", "n", "(", ")", " ", "{",
       "\\n", " ", " ", " ", " ", "l", "o", "o", "p", " ", "{", "\\n",
       " ", " ", " ", " ", " ", " ", " ", " ", "b", "r", "e", "a",
       "k", ";", "\\n", " ", " ", " ", " ", "}", "\\n", "}", "\\n" >>

\* src behind n blanks
Shifted(src, n) == [i \in 1..n |-> " "] \o src
Programs == {BreakStmtSource, BreakValueSource, LoopBreakSource}

IsSpace(c) == c \in {" ", "\n"}
IsLetter(c) ==
    c \in {"a", "b", "c", "d", "e", "f", "g", "h", "i", "j", "k", "l", "m",
           "n", "o", "p", "q", "r", "s", "t", "u", "v", "w", "x", "y", "z"}
KwBreak == << "b", "r", "e", "a", "k" >>
KwLoop == << "l", "o", "o", "p" >>

\* a span that takes in the byte behind the token
Span_Inclusive(start, end) == [start |-> start, end |-> end + 1]
\* a span counted from one
Span_OneBased(start, end) == [start |-> start + 1, end |-> end + 1]
\* Span::new(start, end): the bytes start .. end of the source, end excluded
Span(start, end) == [start |-> start, end |-> end]

\* the end of the word that starts behind byte pos
WordEnd(src, pos) ==
    CHOOSE e \in (pos + 1)..Len(src) :
        /\ \A i \in (pos + 1)..e : IsLetter(src[i])
        /\ e = Len(src) \/ ~IsLetter(src[e + 1])
\* the end of the token that starts behind byte pos
TokenEnd(src, pos) ==
    IF IsLetter(src[pos + 1]) THEN WordEnd(src, pos) ELSE pos + 1
Token(src, pos) ==
    [text |-> SubSeq(src, pos + 1, TokenEnd(src, pos)),
     span |-> Span(pos, TokenEnd(src, pos))]

\* the braces open in front of token i
BraceDepth(toks, i) ==
    Cardinality({j \in 1..(i - 1) : toks[j].text = << "{" >>})
    - Cardinality({j \in 1..(i - 1) : toks[j].text = << "}" >>})
\* token i is in the body of a loop
InLoop(toks, i) ==
    \E j \in 1..(i - 2) :
        /\ toks[j].text = KwLoop
        /\ \A k \in (j + 2)..i : BraceDepth(toks, k) > BraceDepth(toks, j)

CompileOk == [tag |-> "Ok"]
\* rune::Error::EncodeError(kind { span })
EncodeError(kind, span) == [tag |-> "EncodeError", kind |-> kind, span |-> span]

\* what encoding the tokens of a function yields: the first break that is in
\* no loop is an error, a statement if a semicolon follows it and a value if
\* not
compile(toks) ==
    LET bad == {i \in 1..Len(toks) :
                   toks[i].text = KwBreak /\ ~InLoop(toks, i)}
    IN IF bad = {} THEN CompileOk
       ELSE LET i == CHOOSE b \in bad : \A c \in bad : b <= c
            IN IF i < Len(toks) /\ toks[i + 1].text = << ";" >>
               THEN EncodeError("BreakOutsideOfLoop", toks[i].span)
               ELSE EncodeError("BreakDoesNotProduceValue", toks[i].span)

\* rune::compile is called with a source text
InitCompile ==
    /\ saved = NoSaved
    /\ vm = VmIdle
    /\ scopes = ScopesDefault
    /\ guards = << >>
    /\ nextId = 1
    /\ owner = << 0 >>
    /\ shadowed = << NoShadow >>
    /\ lifo = TRUE
    /\ last = Call("default", "", 0, NoGuard, OkUnit, -1, MapDefault)
    /\ cc \in {[state |-> "lex", src |-> Shifted(src, n), pos |-> 0,
                 toks |-> << >>, ret |-> CompileOk] :
                    src \in Programs, n \in 0..MaxShift}

\* the lexer skips a blank or reads a token
Lex ==
    /\ cc.state = "lex"
    /\ cc.pos < Len(cc.src)
    /\ cc' = IF IsSpace(cc.src[cc.pos + 1])
             THEN [cc EXCEPT !.pos = @ + 1]
             ELSE [cc EXCEPT !.pos = TokenEnd(cc.src, @),
                             !.toks = Append(@, Token(cc.src, cc.pos))]
    /\ UNCHANGED << scopes, guards, nextId, owner, shadowed, lifo, last,
                    saved, vm >>

\* the tokens are encoded
Compile ==
    /\ cc.state = "lex"
    /\ cc.pos = Len(cc.src)
    /\ cc' = [cc EXCEPT !.state = "done", !.ret = compile(cc.toks)]
    /\ UNCHANGED << scopes, guards, nextId, owner, shadowed, lifo, last,
                    saved, vm >>

NextCompile ==
    \/ Lex
    \/ Compile

SpecCompile == InitCompile /\ [][NextCompile]_vars

\* ------------------------------------------------------------ properties
Mismatch == Internal("scope length mismatch")

\* C1: on every call sequence in which each pop uses the guard of the most
\* recent push not yet popped, the stack holds at least one scope: the root
\* scope is never removed.
C1_RootNeverRemoved == lifo => Len(scopes) >= 1

\* every push has been popped in order and the root is what is left
C1_Witness ==
    /\ lifo
    /\ last.op = "pop"
    /\ nextId > 2
    /\ Len(scopes) = 1
    /\ guards = << >>

\* C2: pop returns "scope length mismatch" exactly when the length of the
\* stack after the removal differs from the length recorded in the guard, and
\* Ok otherwise; a pop with the guard of the first of two consecutive pushes
\* returns that error.
C2_PopChecksGuard ==
    last.op = "pop" =>
        /\ last.ret = IF Len(scopes) # last.guard.length
                      THEN Mismatch ELSE OkUnit
        /\ ( /\ last.removed = last.guard.id + 1
             /\ owner[Len(scopes)] = last.guard.id ) => last.ret = Mismatch

\* two pushes in a row, then a pop with the guard of the first one failed
C2_Witness ==
    /\ last.op = "pop"
    /\ last.ret = Mismatch
    /\ last.removed = last.guard.id + 1
    /\ owner[Len(scopes)] = last.guard.id

\* C3: whenever pop(guard) returns Ok, the scope it removed is the one that
\* was appended by the push that returned that guard.
C3_PopRemovesGuardedScope ==
    (last.op = "pop" /\ last.ret = OkUnit) => last.removed = last.guard.id

\* C4 as stated: the guard records the length of the stack right after the
\* push.
C4_GuardRecordsLengthAfterPush ==
    [][last'.op = "push" =>
        /\ last'.ret = OkUnit
        /\ scopes' = Append(scopes, ScopeDefault)
        /\ last'.guard.length = Len(scopes')
    ]_vars

\* C4 amended: push always succeeds, appends exactly one new empty scope, and
\* returns a guard whose recorded length is the length of the stack right
\* before that push (one less than the depth reached).
C4_GuardRecordsLengthBeforePush ==
    [][last'.op = "push" =>
        /\ last'.ret = OkUnit
        /\ scopes' = Append(scopes, ScopeDefault)
        /\ last'.guard.length = Len(scopes)
        /\ last'.guard.length = Len(scopes') - 1
    ]_vars

\* a push onto a stack of two scopes returned a guard of length two
C4_Witness ==
    /\ last.op = "push"
    /\ Len(scopes) = 3
    /\ last.guard.length = 2
    /\ scopes[3] = ScopeDefault

\* the scopes in which name is bound
BoundIn(s, name) == {i \in 1..Len(s) : name \in DOMAIN s[i].locals}
\* the innermost of them
Innermost(s, name) ==
    CHOOSE i \in BoundIn(s, name) : \A j \in BoundIn(s, name) : j <= i

C6_DeclFrame ==
    [][last'.op = "decl" =>
        LET k == Len(scopes)
            name == last'.name
        IN /\ last'.ret = OkUnit
           /\ Len(scopes') = k
           /\ \A i \in 1..(k - 1) : scopes'[i] = scopes[i]
           /\ DOMAIN scopes'[k].locals = (DOMAIN scopes[k].locals) \cup {name}
           /\ scopes'[k].locals[name] = last'.val
           /\ \A n \in (DOMAIN scopes[k].locals) \ {name} :
                 scopes'[k].locals[n] = scopes[k].locals[n]
           /\ (last.op = "decl" /\ last.name = name)
                 => get(scopes', name) = Some(last'.val)
    ]_vars

\* x was declared 1 and then 2 in a pushed scope that also binds y, above a
\* root that binds x to 1
C6_Witness ==
    /\ last.op = "decl"
    /\ last.name = "x"
    /\ last.val = 2
    /\ last.gone = [n \in {"x"} |-> 1]
    /\ scopes[1].locals = [n \in {"x"} |-> 1]
    /\ Len(scopes) = 2
    /\ scopes[2].locals = [n \in {"x", "y"} |-> IF n = "x" THEN 2 ELSE 1]

\* C7: clear_current removes every binding of the innermost scope and nothing
\* else: the number of scopes and every outer scope stay, so a name bound in
\* an outer scope is looked up to its outer value after the clear.
C7_ClearFrame ==
    [][last'.op = "clear_current" =>
        LET k == Len(scopes)
        IN /\ last'.ret = OkUnit
           /\ Len(scopes') = k
           /\ \A i \in 1..(k - 1) : scopes'[i] = scopes[i]
           /\ DOMAIN scopes'[k].locals = {}
           /\ \A x \in Names :
                 BoundIn(SubSeq(scopes, 1, k - 1), x) # {}
                 => get(scopes', x) =
                      Some(scopes[Innermost(SubSeq(scopes, 1, k - 1), x)].locals[x])
    ]_vars

\* a pushed scope that bound x to 2 was cleared and x is the outer 1 again
C7_Witness ==
    /\ last.op = "clear_current"
    /\ Len(scopes) >= 2
    /\ "x" \in DOMAIN last.gone
    /\ last.gone["x"] = 2
    /\ "x" \in DOMAIN scopes[1].locals
    /\ get(scopes, "x") = Some(1)

\* C8: absence after scope exit. When pop removes the only scope that binds
\* a name, get(name) is None and get_name(name) is the ScopeError
\* MissingLocal with exactly that name, and that is what the calls made right
\* after the pop return.
C8_AbsentAfterExit ==
    [][\A x \in Names :
        /\ (last'.op = "pop" /\ BoundIn(scopes, x) = {Len(scopes)})
           => /\ get(scopes', x) = None
              /\ get_name(scopes', x) = ScopeError(MissingLocal(x))
        /\ ( /\ last'.op \in {"get", "get_name"}
             /\ last'.name = x
             /\ x \in DOMAIN last'.gone
             /\ BoundIn(scopes, x) = {} )
           => last'.ret = IF last'.op = "get"
                         THEN None ELSE ScopeError(MissingLocal(x))
    ]_vars

\* the scope that held the only binding of x was popped and the get_name(x)
\* that followed returned MissingLocal { name: x }
C8_Witness ==
    /\ last.op = "get_name"
    /\ last.name = "x"
    /\ "x" \in DOMAIN last.gone
    /\ BoundIn(scopes, "x") = {}
    /\ last.ret = [tag |-> "ScopeError",
                   kind |-> [kind |-> "MissingLocal", name |-> "x"]]

\* a call that keeps the innermost scope innermost and uncleared and does not
\* declare x again
KeepsDecl(x) ==
    /\ last'.op \notin {"push", "pop", "clear_current"}
    /\ ~(last'.op = "decl" /\ last'.name = x)

\* C9 as stated: right after decl(x, v) succeeds get(x) is v and get_name(x)
\* is Ok(v), and that is still so after the next call unless that call
\* changes the innermost scope, declares x again or clears the scope.
C9_RoundTripUntilRedeclared ==
    [][\A x \in Names :
        /\ (last'.op = "decl" /\ last'.ret = OkUnit /\ last'.name = x)
           => /\ get(scopes', x) = Some(last'.val)
              /\ get_name(scopes', x) = Ok(last'.val)
        /\ ( /\ last.op = "decl" /\ last.ret = OkUnit /\ last.name = x
             /\ KeepsDecl(x) )
           => /\ get(scopes', x) = Some(last.val)
              /\ get_name(scopes', x) = Ok(last.val)
    ]_vars

\* C9 amended: right after decl(x, v) succeeds get(x) is v and get_name(x) is
\* Ok(v), and every call keeps the lookups of a name bound in the innermost
\* scope as they are unless it changes the innermost scope, declares the name
\* again, clears the scope, or stores to the name through get_name_mut.
C9_RoundTripUntilRewritten ==
    [][\A x \in Names :
        /\ (last'.op = "decl" /\ last'.ret = OkUnit /\ last'.name = x)
           => /\ get(scopes', x) = Some(last'.val)
              /\ get_name(scopes', x) = Ok(last'.val)
        /\ ( /\ x \in DOMAIN scopes[Len(scopes)].locals
             /\ KeepsDecl(x)
             /\ ~(last'.op = "get_name_mut" /\ last'.name = x) )
           => /\ get(scopes', x) = Some(scopes[Len(scopes)].locals[x])
              /\ get_name(scopes', x) = Ok(scopes[Len(scopes)].locals[x])
              /\ x \in DOMAIN scopes'[Len(scopes')].locals
    ]_vars

\* x = 2 was declared in a pushed scope above x = 1 and a later get_name(x)
\* returned Ok(2)
C9_Witness ==
    /\ last.op = "get_name"
    /\ last.name = "x"
    /\ last.ret = Ok(2)
    /\ Len(scopes) = 2
    /\ shadowed[2]["x"] = Some(1)
    /\ scopes[2].locals["x"] = 2

\* C10: get(name) changes nothing and never fails: it returns the binding of
\* name in the innermost scope that binds it, and None exactly when no scope
\* binds it.
C10_GetInnermost ==
    [][last'.op = "get" =>
        LET name == last'.name
        IN /\ scopes' = scopes
           /\ last'.ret.tag \in {"Some", "None"}
           /\ (last'.ret = None) <=> (BoundIn(scopes, name) = {})
           /\ BoundIn(scopes, name) # {}
                => last'.ret = Some(scopes[Innermost(scopes, name)].locals[name])
    ]_vars

\* x is bound to 1 in the root and to 2 in the scope above it, not in the
\* innermost one, and get(x) returned 2
C10_Witness ==
    /\ last.op = "get"
    /\ last.name = "x"
    /\ Len(scopes) = 3
    /\ BoundIn(scopes, "x") = {1, 2}
    /\ scopes[1].locals["x"] = 1
    /\ last.ret = Some(2)

\* C11: get_name and get_name_mut resolve a name exactly as get does: they
\* return Ok with the binding get returns as Some, and the MissingLocal error
\* carrying the queried name exactly when get returns None; they never return
\* an internal error.
C11_LookupsAgree ==
    [][last'.op \in {"get_name", "get_name_mut"} =>
        LET name == last'.name
            g == get(scopes, name)
        IN /\ last'.ret.tag \in {"Ok", "ScopeError"}
           /\ (last'.ret.tag = "ScopeError") <=> (g = None)
           /\ g = None =>
                 last'.ret = [tag |-> "ScopeError",
                              kind |-> [kind |-> "MissingLocal",
                                        name |-> name]]
           /\ g # None => last'.ret = [tag |-> "Ok", val |-> g.val]]_vars

\* get_name_mut("x") resolved the inner of two bindings of x, as get does
C11_Witness ==
    /\ last.op = "get_name_mut"
    /\ last.name = "x"
    /\ last.ret = Ok(2)
    /\ BoundIn(scopes, "x") = {1, 2}
    /\ scopes[1].locals["x"] = 1
    /\ get(scopes, "x") = Some(2)

\* C12: on a call sequence in which every pop uses the guard of the latest
\* push that is still open, no call returns an internal error: decl,
\* clear_current and pop all return Ok.
C12_LifoNoInternalError ==
    lifo =>
        /\ last.ret.tag # "Internal"
        /\ last.op \in {"decl", "clear_current", "pop"} =>
              last.ret = [tag |-> "Ok"]

\* every push explored was popped in order, the last pop just now
C12_Witness ==
    /\ lifo
    /\ last.op = "pop"
    /\ last.ret = OkUnit
    /\ last.guard.id = 1
    /\ nextId = MaxPush + 1
    /\ guards = << >>

\* C13: max(v1, v2) returns v1 when Value::cmp(v1, v2) is Greater and v2
\* when it is Less or Equal; so it returns the second argument when the two
\* compare as equal.
C13_MaxSecondOnEqual ==
    vm.op = "max" =>
        LET c == ValueCmp(vm.v1, vm.v2)
        IN /\ c = [tag |-> "Ok", val |-> "Greater"] =>
                 vm.ret = [tag |-> "Ok", val |-> vm.v1]
           /\ c \in {[tag |-> "Ok", val |-> "Less"],
                     [tag |-> "Ok", val |-> "Equal"]} =>
                 vm.ret = [tag |-> "Ok", val |-> vm.v2]

\* max of two vectors that compare as equal returned the second one
C13_Witness ==
    /\ vm.op = "max"
    /\ vm.v1 = [ty |-> "Vec", n |-> 2, ref |-> 1]
    /\ vm.v2 = [ty |-> "Vec", n |-> 2, ref |-> 2]
    /\ vm.ret = VmOk(vm.v2)

\* C14: min(v1, v2) returns v2 when Value::cmp(v1, v2) is Greater and v1
\* when it is Less or Equal; so it returns the first argument when the two
\* compare as equal.
C14_MinFirstOnEqual ==
    vm.op = "min" =>
        LET c == ValueCmp(vm.v1, vm.v2)
        IN /\ c = [tag |-> "Ok", val |-> "Greater"] =>
                 vm.ret = [tag |-> "Ok", val |-> vm.v2]
           /\ c \in {[tag |-> "Ok", val |-> "Less"],
                     [tag |-> "Ok", val |-> "Equal"]} =>
                 vm.ret = [tag |-> "Ok", val |-> vm.v1]

\* min of two vectors that compare as equal returned the first one
C14_Witness ==
    /\ vm.op = "min"
    /\ vm.v1 = [ty |-> "Vec", n |-> 2, ref |-> 1]
    /\ vm.v2 = [ty |-> "Vec", n |-> 2, ref |-> 2]
    /\ vm.ret = VmOk(vm.v1)

\* C15: compiling a function whose body is the statement break; outside any
\* loop fails with BreakOutsideOfLoop, and the span of the error is the byte
\* range of the break token: bytes 41..46 of the test's source.
C15_BreakOutsideOfLoop ==
    \A n \in 0..MaxShift :
        (cc.state = "done" /\ cc.src = Shifted(BreakStmtSource, n)) =>
            /\ cc.ret.tag = "EncodeError"
            /\ cc.ret.kind = "BreakOutsideOfLoop"
            /\ SubSeq(cc.src, cc.ret.span.start + 1, cc.ret.span.end)
                   = << "b", "r", "e", "a", "k" >>
            /\ n = 0 => cc.ret.span = [start |-> 41, end |-> 46]

\* the test's source was compiled
C15_Witness ==
    /\ cc.state = "done"
    /\ cc.src = BreakStmtSource
    /\ cc.ret = EncodeError("BreakOutsideOfLoop", Span(41, 46))

\* C16: compiling a function whose body ends in break as the expression
\* that gives its value, outside any loop, fails with
\* BreakDoesNotProduceValue, and the span of the error is the byte range of
\* the break token: bytes 41..46 of the test's source.
C16_BreakDoesNotProduceValue ==
    \A n \in 0..MaxShift :
        (cc.state = "done" /\ cc.src = Shifted(BreakValueSource, n)) =>
            /\ cc.ret.tag = "EncodeError"
            /\ cc.ret.kind = "BreakDoesNotProduceValue"
            /\ SubSeq(cc.src, cc.ret.span.start + 1, cc.ret.span.end)
                   = << "b", "r", "e", "a", "k" >>
            /\ n = 0 => cc.ret.span = [start |-> 41, end |-> 46]

\* the test's source was compiled
C16_Witness ==
    /\ cc.state = "done"
    /\ cc.src = BreakValueSource
    /\ cc.ret = EncodeError("BreakDoesNotProduceValue", Span(41, 46))

\* C17: on every call sequence, pops out of order and failed pops included,
\* in which each guard comes from a push on this stack and is used for one
\* pop at most, the stack never becomes empty: decl and clear_current never
\* return 'expected at least one scope' and pop never returns 'expected at
\* least one scope to pop'.
C17_NeverEmpty ==
    /\ Len(scopes) >= 1
    /\ last.ret # [tag |-> "Internal", msg |-> "expected at least one scope"]
    /\ last.ret # [tag |-> "Internal",
                   msg |-> "expected at least one scope to pop"]

\* a decl on the root scope, after every guard was used out of order and
\* the pops failed
C17_Witness ==
    /\ ~lifo
    /\ nextId = MaxPush + 1
    /\ guards = << >>
    /\ Len(scopes) = 1
    /\ last.op = "decl"
    /\ last.ret = OkUnit

\* C18: a pop that fails with 'scope length mismatch' has removed the
\* innermost scope all the same: the stack is one scope shorter, the scopes
\* below are as they were, and every lookup answers from those scopes alone,
\* so a name bound only in the removed scope is found no more.
C18_FailedPopRemoves ==
    [][(last'.op = "pop" /\ last'.ret = Mismatch) =>
        LET k == Len(scopes)
        IN /\ Len(scopes') = k - 1
           /\ \A i \in 1..(k - 1) : scopes'[i] = scopes[i]
           /\ \A x \in Names :
                 /\ get(scopes', x) = get(SubSeq(scopes, 1, k - 1), x)
                 /\ BoundIn(scopes, x) = {k} =>
                       /\ get(scopes', x) = None
                       /\ get_name(scopes', x).tag = "ScopeError"]_vars

\* a pop failed and the binding of x it removed was the only one
C18_Witness ==
    /\ last.op = "pop"
    /\ last.ret = Mismatch
    /\ "x" \in DOMAIN last.gone
    /\ Len(scopes) = 2
    /\ get(scopes, "x") = None

\* C19: on every reachable stack S, a push, then any number of decl and
\* clear_current calls and no other push or pop, then a pop with the guard of
\* that push: the pop returns Ok and the stack is S again, the same scopes
\* with the same bindings.
C19_PushPopRoundTrip ==
    saved.state = "closed" =>
        /\ last.op = "pop"
        /\ last.guard.id = saved.id
        /\ last.ret = [tag |-> "Ok"]
        /\ scopes = saved.stack
        /\ \A x \in Names : get(scopes, x) = get(saved.stack, x)

\* the round trip on a stack that an earlier failed pop left behind, with a
\* binding of x declared in between
C19_Witness ==
    /\ saved.state = "closed"
    /\ ~lifo
    /\ Len(scopes) = 2
    /\ "x" \in DOMAIN last.gone
    /\ last.ret = OkUnit

\* C20: a store through the reference get_name_mut(x) returns changes the
\* binding of x in the innermost scope that binds x, which may be an outer
\* one, and changes no other binding and not the length of the stack. So a
\* store made from a nested scope to a name bound only in outer scopes is
\* still seen once the nested scope is popped, while after a decl of the
\* name in the nested scope the pop brings back what the lookup gave before.
C20_UpdateInPlace ==
    [][\A x \in Names :
        /\ (last'.op = "get_name_mut" /\ last'.name = x
               /\ last'.ret.tag = "Ok") =>
              LET k == Innermost(scopes, x)
              IN /\ Len(scopes') = Len(scopes)
                 /\ \A i \in 1..Len(scopes) :
                       /\ DOMAIN scopes'[i].locals = DOMAIN scopes[i].locals
                       /\ \A n \in DOMAIN scopes[i].locals :
                             scopes'[i].locals[n] =
                                 IF i = k /\ n = x THEN last'.val
                                 ELSE scopes[i].locals[n]
        /\ (last.op = "get_name_mut" /\ last.name = x /\ last.ret.tag = "Ok"
               /\ x \notin DOMAIN scopes[Len(scopes)].locals
               /\ last'.op = "pop") =>
              get(scopes', x) = [tag |-> "Some", val |-> last.val]
        /\ (last.op = "decl" /\ last.name = x /\ last'.op = "pop") =>
              get(scopes', x) = shadowed[Len(scopes)][x]]_vars

\* from a nested scope that has its own y, a store of 2 to x, which only the
\* root scope binds and which held 1
C20_Witness ==
    /\ last.op = "get_name_mut"
    /\ last.name = "x"
    /\ last.ret = Ok(1)
    /\ last.val = 2
    /\ Len(scopes) = 2
    /\ DOMAIN scopes[2].locals = {"y"}
    /\ scopes[1].locals["x"] = 2

====
